---- MODULE Spec2Model ----
(***************************************************************************)
(* Octree over 3D points (OctreeNode / Octree of octree.h, octree.cpp).    *)
(*                                                                         *)
(* The heap of OctreeNode objects is a sequence of records; the address of *)
(* a node is its position in the sequence, NULL is 0.  `new` appends a     *)
(* record, `delete` overwrites the record by FreedNode; addresses are not  *)
(* reused, so a pointer to a freed node stays recognisable.                *)
(*                                                                         *)
(* Coordinates are integers: the real value v is stored as v * 10 * Grain, *)
(* Grain = 2^(MaxDepth+1), so that every halving the code performs down to *)
(* depth MaxDepth (size / 2.0, (max + min) / 2.0) is exact, as it is on    *)
(* the dyadic floats the code computes with.                               *)
(***************************************************************************)
EXTENDS Integers, Sequences, FiniteSets, TLC

VARIABLES
    phase,      \* "raw" before a constructor ran, "ready" after, "failed" if it threw
    maxDepth,   \* Octree::maxDepth
    size,       \* Octree::size
    origin,     \* Octree::origin
    rootNode,   \* Octree::rootNode
    heap,       \* the OctreeNode objects allocated so far
    last,       \* the last call: operation, argument, result, what it touched
    stored,     \* points inserted successfully and not passed to deletePoint since
    everFailed, \* some insertPoint call has thrown
    cloud       \* the point cloud the tree was constructed from, <<>> if none

vars == <<phase, maxDepth, size, origin, rootNode, heap, last, stored, everFailed,
          cloud>>

----------------------------------------------------------------------------
(* Bounds of the model *)

MaxDepth == 2       \* largest maxDepth a constructor is given
MaxNodes == 5       \* OctreeNode objects allocated in one run
MaxPoints == 2      \* entries held by all pointLists together
MaxFalseAt == 2     \* latest invocation at which a visitor returns false

----------------------------------------------------------------------------
(* Numbers and points *)

NULL == 0

childNum == 8

RECURSIVE Pow2(_)
Pow2(n) == IF n = 0 THEN 1 ELSE 2 * Pow2(n - 1)

Grain == Pow2(MaxDepth + 1)

\* the point (a/10, b/10, c/10)
Pt(a, b, c) == <<a * Grain, b * Grain, c * Grain>>

Axes == 1..3

Max2(a, b) == IF a > b THEN a ELSE b
Min2(a, b) == IF a < b THEN a ELSE b

\* x / 2.0 on a value whose half is representable
Half(x) == x \div 2

PtA == Pt(1, 1, 1)
PtB == Pt(19, 19, 19)
PtC == Pt(2, 2, 2)
PtMid == Pt(10, 3, 3)
PtOut == Pt(21, 1, 1)

\* the points the calls are made with
Points == {PtA, PtB, PtC, PtMid, PtOut}

\* bounds given to Octree(int, double, Point3f)
RootSize == 20 * Grain
RootOrigin == Pt(0, 0, 0)

----------------------------------------------------------------------------
(* OctreeNode *)

NoChildren == [i \in 0..(childNum - 1) |-> NULL]

\* OctreeNode(_depth, _size, _origin, _parentIndex): children(8), parent{}, isLeaf = false
OctreeNode(_depth, _size, _origin, _parentIndex) ==
    [alive |-> TRUE, children |-> NoChildren, parent |-> NULL,
     parentIndex |-> _parentIndex, depth |-> _depth, size |-> _size,
     origin |-> _origin, isLeaf |-> FALSE, pointList |-> <<>>]

\* the storage of a node after `delete`
FreedNode ==
    [alive |-> FALSE, children |-> NoChildren, parent |-> NULL,
     parentIndex |-> -1, depth |-> 0, size |-> 0,
     origin |-> <<0, 0, 0>>, isLeaf |-> FALSE, pointList |-> <<>>]

----------------------------------------------------------------------------
(* Bounds test and octant arithmetic *)

\* a bounds test that lets the faces of the cube in
isPointInBound_Closed(_point, _origin, _size) ==
    /\ \A a \in Axes : _point[a] >= _origin[a]
    /\ \A a \in Axes : _point[a] <= _origin[a] + _size

\* Octree::isPointInBound(const Point3f&, Point3f&, double)
isPointInBound(_point, _origin, _size) ==
    /\ \A a \in Axes : _point[a] > _origin[a]
    /\ \A a \in Axes : _point[a] < _origin[a] + _size

\* xIndex, yIndex, zIndex of insertPointRecurse and index
AxisIndex(_point, _origin, _size, a) ==
    IF _point[a] < _origin[a] + Half(_size) THEN 0 ELSE 1

\* an octant code that gives yIndex and zIndex the same weight
ChildIndex_EqualWeights(_point, _origin, _size) ==
    AxisIndex(_point, _origin, _size, 1)
        + AxisIndex(_point, _origin, _size, 2) * 2
        + AxisIndex(_point, _origin, _size, 3) * 2

\* childIndex = xIndex + yIndex * 2 + zIndex * 4
ChildIndex(_point, _origin, _size) ==
    AxisIndex(_point, _origin, _size, 1)
        + AxisIndex(_point, _origin, _size, 2) * 2
        + AxisIndex(_point, _origin, _size, 3) * 4

\* childOrigin = node->origin + Point3f(xIndex * childSize, yIndex * childSize, zIndex * childSize)
ChildOrigin(_point, _origin, _size) ==
    [a \in Axes |-> _origin[a] + AxisIndex(_point, _origin, _size, a) * Half(_size)]

----------------------------------------------------------------------------
(* Insertion *)

\* Octree::insertPointRecurse; err is TRUE when CV_Error is raised, and the
\* nodes created before the throw stay in the heap
RECURSIVE insertPointRecurse(_, _, _, _)
\* a descent that makes its leaf one level below maxDepth
insertPointRecurse_Deeper(h, node, point, md) ==
    IF ~isPointInBound(point, h[node].origin, h[node].size)
    THEN [heap |-> h, err |-> TRUE]
    ELSE IF h[node].depth = md + 1
    THEN [heap |-> [h EXCEPT ![node].isLeaf = TRUE,
                             ![node].pointList = Append(@, point)],
          err |-> FALSE]
    ELSE LET childIndex == ChildIndex(point, h[node].origin, h[node].size)
             created == [OctreeNode(h[node].depth + 1, Half(h[node].size),
                                    ChildOrigin(point, h[node].origin, h[node].size),
                                    childIndex)
                            EXCEPT !.parent = node]
             h2 == IF h[node].children[childIndex] = NULL
                   THEN Append([h EXCEPT ![node].children[childIndex] = Len(h) + 1], created)
                   ELSE h
         IN  insertPointRecurse(h2, h2[node].children[childIndex], point, md)

insertPointRecurse(h, node, point, md) ==
    IF ~isPointInBound(point, h[node].origin, h[node].size)
    THEN [heap |-> h, err |-> TRUE]
    ELSE IF h[node].depth = md
    THEN [heap |-> [h EXCEPT ![node].isLeaf = TRUE,
                             ![node].pointList = Append(@, point)],
          err |-> FALSE]
    ELSE LET childSize == Half(h[node].size)
             childIndex == ChildIndex(point, h[node].origin, h[node].size)
             childOrigin == ChildOrigin(point, h[node].origin, h[node].size)
             fresh == Len(h) + 1
             created == [OctreeNode(h[node].depth + 1, childSize, childOrigin, childIndex)
                            EXCEPT !.parent = node]
             h2 == IF h[node].children[childIndex] = NULL
                   THEN Append([h EXCEPT ![node].children[childIndex] = fresh], created)
                   ELSE h
         IN  insertPointRecurse(h2, h2[node].children[childIndex], point, md)

\* Octree::insertPoint(node, point) called on rootNode
insertPoint(h, root, point, md, sz, org) ==
    LET h1 == IF root = NULL THEN Append(h, OctreeNode(0, sz, org, -1)) ELSE h
        node == IF root = NULL THEN Len(h) + 1 ELSE root
        r == insertPointRecurse(h1, node, point, md)
    IN  [heap |-> r.heap, root |-> node, err |-> r.err]

----------------------------------------------------------------------------
(* Lookup *)

\* the scan of a pointList for an entry componentwise equal to point
HasPoint(pointList, point) ==
    \E i \in 1..Len(pointList) : \A a \in Axes : point[a] = pointList[i][a]

\* Octree::index(const Point3f&, OctreeNode*&) const
RECURSIVE indexFrom(_, _, _)
\* a lookup that returns the leaf it reaches without scanning its pointList
indexFrom_NoScan(h, point, node) ==
    IF node = NULL THEN NULL
    ELSE IF h[node].isLeaf THEN node
    ELSE IF isPointInBound(point, h[node].origin, h[node].size)
    THEN indexFrom(h, point, h[node].children[ChildIndex(point, h[node].origin, h[node].size)])
    ELSE NULL

indexFrom(h, point, node) ==
    IF node = NULL THEN NULL
    ELSE IF h[node].isLeaf
    THEN IF HasPoint(h[node].pointList, point) THEN node ELSE NULL
    ELSE IF isPointInBound(point, h[node].origin, h[node].size)
    THEN LET childIndex == ChildIndex(point, h[node].origin, h[node].size)
         IN  IF h[node].children[childIndex] # NULL
             THEN indexFrom(h, point, h[node].children[childIndex])
             ELSE NULL
    ELSE NULL

\* Octree::index(const Point3f&)
index(h, root, point, sz, org) ==
    IF isPointInBound(point, org, sz) THEN indexFrom(h, point, root) ELSE NULL

----------------------------------------------------------------------------
(* Deletion *)

\* pointList.erase(pointList.begin() + i), i counted from 1
EraseAt(pointList, i) ==
    [j \in 1..(Len(pointList) - 1) |-> IF j < i THEN pointList[j] ELSE pointList[j + 1]]

\* the loop of Octree::deletePoint over the located leaf's pointList: i is
\* advanced after an erase as well
RECURSIVE eraseLoop(_, _, _)
eraseLoop(pointList, i, point) ==
    IF i > Len(pointList) THEN pointList
    ELSE IF \A a \in Axes : point[a] = pointList[i][a]
    THEN eraseLoop(EraseAt(pointList, i), i + 1, point)
    ELSE eraseLoop(pointList, i + 1, point)

\* variant of LeafIsPruned with the test negated: the leaf goes when it is empty
LeafIsPruned_Emptied(pointList) == pointList = <<>>

\* the test of deletePointRecurse that sends a leaf to `delete`:
\* if( !node->pointList.empty())
LeafIsPruned(pointList) == pointList # <<>>

\* all eight child slots of the node are null
NoChildLeft(h, node) == \A i \in 0..(childNum - 1) : h[node].children[i] = NULL

\* Octree::deletePointRecurse.  Its parameter is a reference to a local
\* pointer of the caller at every call site, so `node = nullptr` changes no
\* child slot and not rootNode.
RECURSIVE deletePointRecurse(_, _)
deletePointRecurse(h, node) ==
    IF node = NULL THEN [heap |-> h, ret |-> FALSE]
    ELSE IF h[node].isLeaf
    THEN IF LeafIsPruned(h[node].pointList)
         THEN LET parent == h[node].parent
                  h2 == [h EXCEPT ![parent].children[h[node].parentIndex] = NULL,
                                  ![node] = FreedNode]
              IN  deletePointRecurse(h2, parent)
         ELSE [heap |-> h, ret |-> TRUE]
    ELSE IF NoChildLeft(h, node)
         THEN deletePointRecurse(h, h[node].parent)
         ELSE [heap |-> h, ret |-> TRUE]

\* the leaf deletePoint locates has no parent and is not empty after the erase
\* loop, so deletePointRecurse dereferences parent == nullptr (line 388)
NullParentWrite(h, root, point) ==
    LET node == indexFrom(h, point, root)
    IN  /\ node # NULL
        /\ h[node].parent = NULL
        /\ LeafIsPruned(eraseLoop(h[node].pointList, 1, point))

\* Octree::deletePoint; leaf, before and erased record the located leaf and
\* its pointList before and after the erase loop
deletePoint(h, root, point) ==
    LET node == indexFrom(h, point, root)
    IN  IF node # NULL
        THEN LET erased == eraseLoop(h[node].pointList, 1, point)
                 h1 == [h EXCEPT ![node].pointList = erased]
                 r == deletePointRecurse(h1, node)
             IN  [heap |-> r.heap, ret |-> r.ret, leaf |-> node,
                  before |-> h[node].pointList, erased |-> erased]
        ELSE [heap |-> h, ret |-> FALSE, leaf |-> NULL,
              before |-> <<>>, erased |-> <<>>]

----------------------------------------------------------------------------
(* Construction from a point cloud *)

RECURSIVE MaxOver(_, _, _)
MaxOver(pointCloud, a, idx) ==
    IF idx = 1 THEN pointCloud[1][a]
    ELSE Max2(pointCloud[idx][a], MaxOver(pointCloud, a, idx - 1))

RECURSIVE MinOver(_, _, _)
MinOver(pointCloud, a, idx) ==
    IF idx = 1 THEN pointCloud[1][a]
    ELSE Min2(pointCloud[idx][a], MinOver(pointCloud, a, idx - 1))

\* Octree::findCenterInPointCloud: (maxBound + minBound) / 2.0
findCenterInPointCloud(pointCloud) ==
    [a \in Axes |-> Half(MaxOver(pointCloud, a, Len(pointCloud))
                          + MinOver(pointCloud, a, Len(pointCloud)))]

\* halfSize = std::max(center.x, std::max(center.y, center.z))
HalfSizeOf(center) == Max2(center[1], Max2(center[2], center[3]))

\* the insertion loop of convertFromPointCloud, stopped by the first throw
RECURSIVE insertAll(_, _, _, _, _, _, _)
insertAll(h, root, pointCloud, idx, md, sz, org) ==
    IF idx > Len(pointCloud) THEN [heap |-> h, root |-> root, err |-> FALSE]
    ELSE LET r == insertPoint(h, root, pointCloud[idx], md, sz, org)
         IN  IF r.err THEN r
             ELSE insertAll(r.heap, r.root, pointCloud, idx + 1, md, sz, org)

\* Octree::convertFromPointCloud
convertFromPointCloud(pointCloud, md) ==
    LET center == findCenterInPointCloud(pointCloud)
        halfSize == HalfSizeOf(center)
        org == [a \in Axes |-> center[a] - halfSize]
        sz == 2 * halfSize
        r == insertAll(<<>>, NULL, pointCloud, 1, md, sz, org)
    IN  [heap |-> r.heap, root |-> r.root, err |-> r.err, size |-> sz, origin |-> org]

----------------------------------------------------------------------------
(* Teardown *)

\* parent->children[parentIndex] = nullptr, guarded by parentIndex != -1
Detach(h, node) ==
    IF h[node].parentIndex # -1
    THEN [h EXCEPT ![h[node].parent].children[h[node].parentIndex] = NULL]
    ELSE h

\* OctreeNode::clear; clearChildren is its loop over children[i], from slot i on
RECURSIVE clearNode(_, _)
RECURSIVE clearChildren(_, _, _)
clearChildren(h, node, i) ==
    IF i = childNum THEN h
    ELSE IF h[node].children[i] # NULL
    THEN clearChildren(clearNode(h, h[node].children[i]), node, i + 1)
    ELSE clearChildren(h, node, i + 1)

clearNode(h, node) ==
    IF h[node].isLeaf
    THEN [Detach(h, node) EXCEPT ![node] = FreedNode]
    ELSE LET h1 == clearChildren(h, node, 0)
         IN  [Detach(h1, node) EXCEPT ![node] = FreedNode]

\* Octree::clear: rootNode->clear() when the root is not null, then size,
\* maxDepth and origin are reset; rootNode itself is not assigned
clear(h, root) == IF root # NULL THEN clearNode(h, root) ELSE h

----------------------------------------------------------------------------
(* Traversal.  The visitor f is modelled by the invocation it returns false  *)
(* on: f is false at its k-th invocation of the call and true at the others *)
(* (k = 0: f is always true).  seen is the sequence of nodes f has been      *)
(* invoked on so far, and the result is seen extended by the invocations of *)
(* the call.                                                                *)

\* the value f returns at the invocation that made seen what it is
Visitor(seen, k) == Len(seen) # k

\* Octree::traverseRecurseDFS; dfsChildren is its loop over children, from slot i on
RECURSIVE traverseRecurseDFS(_, _, _, _)
RECURSIVE dfsChildren(_, _, _, _, _)
\* a loop that takes the children from slot 7 down to slot 0
dfsChildren_Descending(h, node, i, k, seen) ==
    IF i = childNum THEN seen
    ELSE dfsChildren(h, node, i + 1, k,
                     traverseRecurseDFS(h, h[node].children[childNum - 1 - i], k, seen))

dfsChildren(h, node, i, k, seen) ==
    IF i = childNum THEN seen
    ELSE dfsChildren(h, node, i + 1, k,
                     traverseRecurseDFS(h, h[node].children[i], k, seen))

traverseRecurseDFS(h, node, k, seen) ==
    IF node = NULL THEN seen
    ELSE LET invoked == Append(seen, node)
         IN  IF ~Visitor(invoked, k) THEN invoked
             ELSE dfsChildren(h, node, 0, k, invoked)

\* Octree::traverseRecurseBFS; bfsChildren is its loop over children, from slot i
\* on.  `if(!f(node)) return;` is the last statement of the function, so both
\* results of f lead to the same return.
RECURSIVE traverseRecurseBFS(_, _, _, _)
RECURSIVE bfsChildren(_, _, _, _, _)
bfsChildren(h, node, i, k, seen) ==
    IF i = childNum THEN seen
    ELSE bfsChildren(h, node, i + 1, k,
                     traverseRecurseBFS(h, h[node].children[i], k, seen))

\* a traversal that invokes f on the node before it takes the children
traverseRecurseBFS_NodeFirst(h, node, k, seen) ==
    IF node = NULL THEN seen
    ELSE bfsChildren(h, node, 0, k, Append(seen, node))

traverseRecurseBFS(h, node, k, seen) ==
    IF node = NULL THEN seen
    ELSE LET invoked == Append(bfsChildren(h, node, 0, k, seen), node)
         IN  IF ~Visitor(invoked, k) THEN invoked ELSE invoked

----------------------------------------------------------------------------
(* Inputs of the constructors *)

CloudScenario == <<PtA, PtB>>
CloudOffset == <<Pt(11, 11, 11), Pt(19, 19, 19)>>
CloudNegative == <<Pt(-19, -19, -19), Pt(-1, -1, -1), Pt(-7, -7, -7)>>
CloudAroundZero == <<Pt(-9, -9, -9), Pt(9, 9, 9), Pt(1, 1, 1)>>
CloudMixed == <<Pt(-5, 1, 1), Pt(15, 3, 3), Pt(-3, 2, 2)>>

Clouds == {CloudScenario, CloudOffset, CloudNegative, CloudAroundZero, CloudMixed}

Depths == 1..MaxDepth

\* what pointCloud[0] of an empty vector may read when the read does not trap
StrayReads == {Pt(0, 0, 0), Pt(10, 10, 10)}

\* Octree::convertFromPointCloud on an empty vector: findCenterInPointCloud
\* copies pointCloud[0] (read outside the buffer) into maxBound and minBound,
\* its loop and the insertion loop run zero times
convertFromEmptyCloud(read) ==
    LET center == findCenterInPointCloud(<<read>>)
        halfSize == HalfSizeOf(center)
    IN  [size |-> 2 * halfSize, origin |-> [a \in Axes |-> center[a] - halfSize]]

----------------------------------------------------------------------------
(* Bookkeeping of the calls *)

\* a call other than deletePoint.  For an insertPoint call, created is the
\* number of nodes the call constructed, hadRoot tells whether rootNode was
\* not null when it was made, and intact whether it left heap and rootNode as
\* they were
Call(op, arg, ret, err) ==
    [op |-> op, arg |-> arg, ret |-> ret, err |-> err, leaf |-> NULL,
     before |-> <<>>, erased |-> <<>>, anc |-> {}, after |-> "other", same |-> FALSE,
     visits |-> <<>>, created |-> 0, hadRoot |-> FALSE, intact |-> FALSE]

\* a deletePoint call: the leaf it located, that leaf's pointList before and
\* after the erase loop, the leaf's ancestors, what the call came after
\* ("removed": a deletePoint of the same point that returned true, "absent":
\* one that returned false) and whether it left heap and rootNode as they were
DeleteCall(arg, r, anc, after, same) ==
    [op |-> "delete", arg |-> arg, ret |-> r.ret, err |-> FALSE, leaf |-> r.leaf,
     before |-> r.before, erased |-> r.erased, anc |-> anc, after |-> after,
     same |-> same, visits |-> <<>>, created |-> 0, hadRoot |-> FALSE,
     intact |-> FALSE]

RECURSIVE Ancestors(_, _)
Ancestors(h, node) ==
    IF node = NULL \/ h[node].parent = NULL THEN {}
    ELSE {h[node].parent} \cup Ancestors(h, h[node].parent)

\* every pointList of h2 is as in h, and empty in a node h does not have
SamePointLists(h, h2) ==
    \A n \in 1..Len(h2) :
        h2[n].pointList = (IF n <= Len(h) THEN h[n].pointList ELSE <<>>)

\* the points held by the pointLists of live nodes
Held(h) == UNION {{h[n].pointList[i] : i \in 1..Len(h[n].pointList)} : n \in 1..Len(h)}

RECURSIVE TotalPoints(_, _)
TotalPoints(h, n) == IF n = 0 THEN 0 ELSE Len(h[n].pointList) + TotalPoints(h, n - 1)

Range(seq) == {seq[i] : i \in 1..Len(seq)}

----------------------------------------------------------------------------
(* The state machine *)

Init ==
    /\ phase = "raw"
    /\ maxDepth = 0
    /\ size = 0
    /\ origin = <<0, 0, 0>>
    /\ rootNode = NULL
    /\ heap = <<>>
    /\ last = Call("none", <<>>, FALSE, FALSE)
    /\ stored = {}
    /\ everFailed = FALSE
    /\ cloud = <<>>

\* Octree(int _maxDepth, double _size, Point3f _origin)
OctreeBounds(_maxDepth) ==
    /\ phase = "raw"
    /\ phase' = "ready"
    /\ maxDepth' = _maxDepth
    /\ size' = RootSize
    /\ origin' = RootOrigin
    /\ last' = Call("bounds", <<>>, TRUE, FALSE)
    /\ UNCHANGED <<rootNode, heap, stored, everFailed, cloud>>

\* Octree(int _maxDepth, std::vector<Point3f>& _pointCloud)
OctreeCloud(_maxDepth, _pointCloud) ==
    /\ phase = "raw"
    /\ LET r == convertFromPointCloud(_pointCloud, _maxDepth)
       IN  /\ phase' = IF r.err THEN "failed" ELSE "ready"
           /\ size' = r.size
           /\ origin' = r.origin
           /\ rootNode' = r.root
           /\ heap' = r.heap
           /\ last' = Call("cloud", <<>>, ~r.err, r.err)
           /\ stored' = IF r.err THEN {} ELSE Range(_pointCloud)
    /\ maxDepth' = _maxDepth
    /\ cloud' = _pointCloud
    /\ UNCHANGED everFailed

\* insertPoint(rootNode, point)
InsertPoint(point) ==
    /\ phase = "ready"
    /\ TotalPoints(heap, Len(heap)) < MaxPoints
    /\ LET r == insertPoint(heap, rootNode, point, maxDepth, size, origin)
       IN  /\ Len(r.heap) <= MaxNodes
           /\ heap' = r.heap
           /\ rootNode' = r.root
           /\ last' = [Call("insert", point, ~r.err, r.err)
                           EXCEPT !.same = SamePointLists(heap, r.heap),
                                  !.created = Len(r.heap) - Len(heap),
                                  !.hadRoot = (rootNode # NULL),
                                  !.intact = (r.heap = heap /\ r.root = rootNode)]
           /\ stored' = IF r.err THEN stored ELSE stored \cup {point}
           /\ everFailed' = (everFailed \/ r.err)
    /\ UNCHANGED <<phase, maxDepth, size, origin, cloud>>

\* deletePoint(point).  When the located leaf is the root (maxDepth = 0) and
\* keeps a point, deletePointRecurse writes parent->children[-1] through the
\* null parent: the process is taken to end there (the store traps).
DeletePoint(point) ==
    /\ phase = "ready"
    /\ IF NullParentWrite(heap, rootNode, point)
       THEN /\ phase' = "crashed"
            /\ heap' = [heap EXCEPT ![rootNode].pointList = eraseLoop(@, 1, point)]
            /\ last' = [Call("delete", point, FALSE, TRUE) EXCEPT !.leaf = rootNode]
       ELSE LET r == deletePoint(heap, rootNode, point)
            IN  /\ phase' = phase
                /\ heap' = r.heap
                /\ last' = DeleteCall(point, r, Ancestors(heap, r.leaf),
                                      IF last.op = "delete" /\ last.arg = point
                                      THEN (IF last.ret THEN "removed" ELSE "absent")
                                      ELSE "other",
                                      r.heap = heap)
    /\ stored' = stored \ {point}
    /\ UNCHANGED <<maxDepth, size, origin, rootNode, everFailed, cloud>>

\* Octree(int _maxDepth)
OctreeDepth(_maxDepth) ==
    /\ phase = "raw"
    /\ phase' = "ready"
    /\ maxDepth' = _maxDepth
    /\ size' = 0
    /\ origin' = <<0, 0, 0>>
    /\ last' = Call("depth", <<>>, TRUE, FALSE)
    /\ UNCHANGED <<rootNode, heap, stored, everFailed, cloud>>

\* Octree(int _maxDepth, std::vector<Point3f>& _pointCloud) with an empty
\* vector: the read of pointCloud[0] either traps (outcome <<>>) or yields a
\* stray value
OctreeCloudEmpty(_maxDepth, outcome) ==
    /\ phase = "raw"
    /\ IF outcome = <<>>
       THEN /\ phase' = "crashed"
            /\ UNCHANGED <<size, origin>>
       ELSE /\ phase' = "ready"
            /\ size' = convertFromEmptyCloud(outcome).size
            /\ origin' = convertFromEmptyCloud(outcome).origin
    /\ maxDepth' = _maxDepth
    /\ last' = Call("cloud", <<>>, outcome # <<>>, FALSE)
    /\ UNCHANGED <<rootNode, heap, stored, everFailed, cloud>>

\* index(point)
Index(point) ==
    /\ phase = "ready"
    /\ last' = [Call("index", point, TRUE, FALSE)
                    EXCEPT !.leaf = index(heap, rootNode, point, size, origin),
                           !.same = TRUE]
    /\ UNCHANGED <<phase, maxDepth, size, origin, rootNode, heap, stored, everFailed,
                   cloud>>

\* node->clear() on a live node; clearing the root leaves rootNode pointing
\* to the freed node, and no later call is modelled on such a tree
ClearNode(node) ==
    /\ phase = "ready"
    /\ node \in 1..Len(heap)
    /\ heap[node].alive
    /\ heap' = clearNode(heap, node)
    /\ phase' = IF node = rootNode THEN "cleared" ELSE "ready"
    /\ last' = [Call("clearNode", <<>>, TRUE, FALSE)
                    EXCEPT !.leaf = node,
                           !.anc = IF heap[node].parent = NULL THEN {}
                                   ELSE {heap[node].parent},
                           !.before = <<heap[node].parentIndex>>]
    /\ stored' = stored \cap Held(heap')
    /\ UNCHANGED <<maxDepth, size, origin, rootNode, everFailed, cloud>>

\* Octree::clear()
ClearTree ==
    /\ phase = "ready"
    /\ heap' = clear(heap, rootNode)
    /\ size' = 0
    /\ maxDepth' = 0
    /\ origin' = <<0, 0, 0>>
    /\ phase' = IF rootNode = NULL THEN "ready" ELSE "cleared"
    /\ last' = [Call("clear", <<>>, TRUE, FALSE) EXCEPT !.leaf = rootNode]
    /\ stored' = {}
    /\ UNCHANGED <<rootNode, everFailed, cloud>>

\* traverseRecurseDFS(rootNode, f), f false at its k-th invocation
TraverseDFS(k) ==
    /\ phase = "ready"
    /\ last' = [Call("dfs", k, TRUE, FALSE)
                    EXCEPT !.visits = traverseRecurseDFS(heap, rootNode, k, <<>>),
                           !.same = TRUE]
    /\ UNCHANGED <<phase, maxDepth, size, origin, rootNode, heap, stored, everFailed,
                   cloud>>

\* traverseRecurseBFS(rootNode, f), f false at its k-th invocation
TraverseBFS(k) ==
    /\ phase = "ready"
    /\ last' = [Call("bfs", k, TRUE, FALSE)
                    EXCEPT !.visits = traverseRecurseBFS(heap, rootNode, k, <<>>),
                           !.same = TRUE]
    /\ UNCHANGED <<phase, maxDepth, size, origin, rootNode, heap, stored, everFailed,
                   cloud>>

Next ==
    \/ \E d \in Depths : OctreeBounds(d)
    \/ \E d \in Depths : OctreeDepth(d)
    \/ \E d \in Depths : \E c \in Clouds : OctreeCloud(d, c)
    \/ \E d \in Depths : \E o \in StrayReads \cup {<<>>} : OctreeCloudEmpty(d, o)
    \/ \E p \in Points : InsertPoint(p)
    \/ \E p \in Points : DeletePoint(p)

Spec == Init /\ [][Next]_vars

\* construction, insertPoint, deletePoint and index
NextLookup ==
    \/ Next
    \/ \E p \in Points : Index(p)

SpecLookup == Init /\ [][NextLookup]_vars

\* the two traversals, over the trees that insertPoint and deletePoint make of
\* an octree constructed from its bounds
NextTraverse ==
    \/ \E d \in Depths : OctreeBounds(d)
    \/ \E p \in Points : InsertPoint(p)
    \/ \E p \in Points : DeletePoint(p)
    \/ \E k \in 0..MaxFalseAt : TraverseDFS(k)
    \/ \E k \in 0..MaxFalseAt : TraverseBFS(k)

SpecTraverse == Init /\ [][NextTraverse]_vars

\* construction, insertPoint, deletePoint and the two clear operations
NextClear ==
    \/ Next
    \/ \E n \in 1..MaxNodes : ClearNode(n)
    \/ ClearTree

SpecClear == Init /\ [][NextClear]_vars

\* the constructors given any maxDepth from 0 on, then insertPoint and deletePoint
NextAnyDepth ==
    \/ \E d \in 0..MaxDepth : OctreeBounds(d)
    \/ \E d \in 0..MaxDepth : OctreeDepth(d)
    \/ \E d \in 0..MaxDepth : \E c \in Clouds : OctreeCloud(d, c)
    \/ \E p \in Points : InsertPoint(p)
    \/ \E p \in Points : DeletePoint(p)

SpecAnyDepth == Init /\ [][NextAnyDepth]_vars

----------------------------------------------------------------------------
(* Properties *)

Nodes == 1..Len(heap)

\* number of entries of pointList equal to point
Copies(pointList, point) == Cardinality({i \in 1..Len(pointList) : pointList[i] = point})

\* pointList without the entries equal to point, the others in their order
Without(pointList, point) == SelectSeq(pointList, LAMBDA q : q # point)

\* the point lies on a face plane of the cube
OnFace(_point, _origin, _size) ==
    \E a \in Axes : _point[a] = _origin[a] \/ _point[a] = _origin[a] + _size

\* largest edge of the bounding box of the cloud
MaxExtent(pointCloud) ==
    LET ext(a) == MaxOver(pointCloud, a, Len(pointCloud)) - MinOver(pointCloud, a, Len(pointCloud))
    IN  Max2(ext(1), Max2(ext(2), ext(3)))

\* C1: after any sequence of successful insert and delete calls, every live
\* internal node has at least one non-null child and every live leaf has a
\* non-empty pointList.
C1_NoEmptyNode ==
    (phase = "ready" /\ ~everFailed) =>
        \A n \in Nodes :
            heap[n].alive =>
                IF heap[n].isLeaf THEN heap[n].pointList # <<>>
                ELSE ~NoChildLeft(heap, n)

\* C2: full drain: once deletePoint has been called for every point that was
\* inserted, the root is null (isEmpty() is true).
C2_FullDrain ==
    (phase = "ready" /\ ~everFailed /\ last.op = "delete" /\ stored = {}) =>
        rootNode = NULL

\* C3: deletePoint frees the located leaf if and only if its pointList is
\* empty after the removal, a leaf kept holds its other points and they stay
\* locatable, and an ancestor of the leaf is freed if and only if it has no
\* child left.
C3_PrunedIffEmpty ==
    (last.op = "delete" /\ last.leaf # NULL) =>
        /\ ~heap[last.leaf].alive <=> last.erased = <<>>
        /\ \A q \in Range(last.erased) : indexFrom(heap, q, rootNode) = last.leaf
        /\ \A n \in last.anc : ~heap[n].alive <=> NoChildLeft(heap, n)

\* C4: one deletePoint call removes every entry equal to the query point from
\* the located leaf's pointList, wherever the copies stand, and leaves the
\* other entries in place.
C4_AllCopiesErased ==
    (last.op = "delete" /\ last.leaf # NULL) =>
        last.erased = Without(last.before, last.arg)

\* C5: deletePoint returns true if and only if the call removed at least one
\* stored point equal to the query.
C5_TrueIffRemoved ==
    last.op = "delete" => (last.ret <=> Len(last.erased) < Len(last.before))

\* C6: round-trip delete: after deletePoint(point), index(point) returns
\* null, also when the point was stored several times.
C6_DeleteThenIndex ==
    last.op = "delete" => index(heap, rootNode, last.arg, size, origin) = NULL

\* a deletePoint call has located a leaf that held the point twice or more
C6_Witness ==
    /\ last.op = "delete"
    /\ last.leaf # NULL
    /\ Copies(last.before, last.arg) >= 2

\* C7: idempotent delete: a deletePoint(point) that comes right after a
\* deletePoint(point) returns false and leaves every node and every pointList
\* as the first call left them.
C7_SecondDeleteNoOp ==
    (last.op = "delete" /\ last.after # "other") => (~last.ret /\ last.same)

\* a deletePoint call came right after one of the same point that returned true
C7_Witness ==
    /\ last.op = "delete"
    /\ last.after = "removed"

\* C8: containment: for every point inserted successfully and not deleted,
\* index(point) returns a leaf whose pointList holds an equal entry.
C8_Containment ==
    phase = "ready" =>
        \A p \in stored :
            LET n == index(heap, rootNode, p, size, origin)
            IN  /\ n # NULL
                /\ heap[n].isLeaf
                /\ HasPoint(heap[n].pointList, p)

\* C9: construction from a non-empty point cloud yields a root cube that
\* strictly contains every input point not on a face of that cube, wherever
\* the cloud lies, and rejects none of those points.
C9_CloudInsideRoot ==
    (last.op = "cloud" /\ cloud # <<>>) =>
        \A p \in Range(cloud) :
            ~OnFace(p, origin, size) => (isPointInBound(p, origin, size) /\ ~last.err)

\* C10: construction sets size to the largest edge of the cloud's bounding box
\* and origin to the box's midpoint minus half of size on every axis; the
\* cloud (0.1,0.1,0.1), (1.9,1.9,1.9) with maxDepth 1 gives leaves at octants
\* 0 and 7 with one point each.
C10_RootCubeFromExtent ==
    (last.op = "cloud" /\ cloud # <<>>) =>
        /\ size = MaxExtent(cloud)
        /\ origin = [a \in Axes |-> findCenterInPointCloud(cloud)[a] - Half(size)]
        /\ (cloud = CloudScenario /\ maxDepth = 1) =>
               /\ rootNode # NULL
               /\ \A i \in 0..(childNum - 1) :
                      IF i \in {0, 7}
                      THEN /\ heap[rootNode].children[i] # NULL
                           /\ heap[heap[rootNode].children[i]].isLeaf
                           /\ Len(heap[heap[rootNode].children[i]].pointList) = 1
                      ELSE heap[rootNode].children[i] = NULL

\* the point lies in the open cube: origin.axis < point.axis < origin.axis + size
StrictlyInside(_point, _origin, _size) ==
    \A a \in Axes : _origin[a] < _point[a] /\ _point[a] < _origin[a] + _size

\* bit of the point on axis a in the cube: 0 iff the coordinate is below the midpoint
Bit(_point, _origin, _size, a) == IF 2 * _point[a] < 2 * _origin[a] + _size THEN 0 ELSE 1

\* xBit + 2*yBit + 4*zBit
OctantOf(_point, _origin, _size) ==
    Bit(_point, _origin, _size, 1) + 2 * Bit(_point, _origin, _size, 2)
        + 4 * Bit(_point, _origin, _size, 3)

\* bit of axis a in the octant code c
BitOfCode(c, a) == (c \div Pow2(a - 1)) % 2

\* the point is not strictly inside the cube of some node of its descent: the
\* cube given, or one of the octant cubes of the `levels` levels below it
RECURSIVE LeavesCube(_, _, _, _)
LeavesCube(_point, _origin, _size, levels) ==
    \/ ~StrictlyInside(_point, _origin, _size)
    \/ /\ levels > 0
       /\ LeavesCube(_point,
                     [a \in Axes |-> _origin[a] + Bit(_point, _origin, _size, a) * (_size \div 2)],
                     _size \div 2, levels - 1)

\* the nodes reached from node through children slots, node included
RECURSIVE Subtree(_)
Subtree(node) ==
    IF node = NULL THEN {}
    ELSE {node} \cup UNION {Subtree(heap[node].children[i]) : i \in 0..(childNum - 1)}

\* the node the octant path of the point ends in: a leaf, or the last node
\* before an empty slot (NULL for an empty tree)
RECURSIVE PathEnd(_, _)
PathEnd(node, _point) ==
    IF node = NULL THEN NULL
    ELSE IF heap[node].isLeaf THEN node
    ELSE LET next == heap[node].children[OctantOf(_point, heap[node].origin, heap[node].size)]
         IN  IF next = NULL THEN node ELSE PathEnd(next, _point)

\* position of the node in the sequence of invocations
Pos(visits, node) == CHOOSE i \in 1..Len(visits) : visits[i] = node

\* every node reached from the root is invoked on exactly once, and no other
EachReachableOnce(visits) ==
    /\ \A i, j \in 1..Len(visits) : visits[i] = visits[j] => i = j
    /\ Range(visits) = Subtree(rootNode)
    /\ \A n \in Subtree(rootNode) : heap[n].alive

\* C11: constructing a tree from an empty point set fails with an
\* InvalidArgument error reported to the caller, no node is created and no
\* element of the point buffer is read.
C11_EmptyCloudRejected ==
    (last.op = "cloud" /\ cloud = <<>>) =>
        (phase = "failed" /\ last.err /\ heap = <<>> /\ rootNode = NULL)

\* C12: a max depth <= 0 is rejected with an InvalidArgument failure at
\* construction, so no tree operates with maxDepth <= 0.
C12_DepthRejected ==
    (last.op \in {"bounds", "depth", "cloud"} /\ maxDepth <= 0) =>
        (phase = "failed" /\ last.err)

\* C13: insertPoint fails with OutOfBounds, and adds the point to no
\* pointList, whenever at some level of the descent the point is not strictly
\* inside that node's open cube; it succeeds otherwise, the point then being
\* held by a leaf.
C13_InsertBounds ==
    last.op = "insert" =>
        /\ last.err <=> LeavesCube(last.arg, origin, size, maxDepth)
        /\ last.err => last.same
        /\ ~last.err =>
               \E n \in Nodes :
                   /\ heap[n].alive
                   /\ heap[n].isLeaf
                   /\ last.arg \in Range(heap[n].pointList)

\* an insertPoint has failed below the root: the point is strictly inside the
\* root cube and on a face of an octant cube of its descent
C13_Witness ==
    /\ last.op = "insert"
    /\ last.err
    /\ StrictlyInside(last.arg, origin, size)

\* C14: index(point) returns null whenever the point lies outside the root
\* bounds, whenever an octant on its descent path has no child, and whenever
\* the leaf reached holds no componentwise-equal entry; the node it returns
\* otherwise is the live leaf of the path, which holds an equal entry.
C14_IndexResult ==
    last.op = "index" =>
        LET end == PathEnd(rootNode, last.arg)
        IN  /\ ~StrictlyInside(last.arg, origin, size) => last.leaf = NULL
            /\ (end = NULL \/ ~heap[end].isLeaf) => last.leaf = NULL
            /\ (end # NULL /\ last.arg \notin Range(heap[end].pointList)) =>
                   last.leaf = NULL
            /\ last.leaf # NULL =>
                   /\ last.leaf = end
                   /\ heap[end].alive
                   /\ heap[end].isLeaf
                   /\ last.arg \in Range(heap[end].pointList)

\* an index call has reached a leaf that holds points, none equal to the query
C14_Witness ==
    /\ last.op = "index"
    /\ StrictlyInside(last.arg, origin, size)
    /\ PathEnd(rootNode, last.arg) # NULL
    /\ heap[PathEnd(rootNode, last.arg)].isLeaf
    /\ heap[PathEnd(rootNode, last.arg)].pointList # <<>>
    /\ last.arg \notin Range(heap[PathEnd(rootNode, last.arg)].pointList)

\* C15: in both traversals, once the visitor has returned false for a node,
\* it is invoked on no further node for the rest of the traversal call.
C15_FalseStopsTraversal ==
    (last.op \in {"dfs", "bfs"} /\ last.arg # 0) => Len(last.visits) <= last.arg

\* C16: traverseRecurseDFS with an always-true visitor invokes it exactly once
\* on every live node reachable from the start node, on a node before its
\* descendants, and on the children of a node in increasing octant index.
C16_DFSPreOrder ==
    (last.op = "dfs" /\ last.arg = 0) =>
        /\ EachReachableOnce(last.visits)
        /\ \A n \in Subtree(rootNode) :
               \A m \in Ancestors(heap, n) :
                   Pos(last.visits, m) < Pos(last.visits, n)
        /\ \A n \in Subtree(rootNode) :
               \A i, j \in 0..(childNum - 1) :
                   i < j =>
                       \A x \in Subtree(heap[n].children[i]) :
                           \A y \in Subtree(heap[n].children[j]) :
                               Pos(last.visits, x) < Pos(last.visits, y)

\* a depth-first traversal with an always-true visitor of a tree in which a
\* node has two children
C16_Witness ==
    /\ last.op = "dfs"
    /\ last.arg = 0
    /\ \E n \in Subtree(rootNode) :
           \E i, j \in 0..(childNum - 1) :
               i < j /\ heap[n].children[i] # NULL /\ heap[n].children[j] # NULL

C18_NoDanglingAfterClear ==
    last.op \in {"clear", "clearNode"} =>
        /\ last.leaf # NULL => ~heap[last.leaf].alive
        /\ \A n \in last.anc : heap[n].children[last.before[1]] = NULL
        /\ \A n \in Nodes :
               heap[n].alive =>
                   \A i \in 0..(childNum - 1) :
                       heap[n].children[i] # NULL => heap[heap[n].children[i]].alive
        /\ rootNode # NULL => heap[rootNode].alive
        /\ last.op = "clear" => rootNode = NULL

\* C19: each point stored in a leaf's pointList lies strictly inside the open
\* cube of that leaf and of every ancestor of the leaf up to the root.
C19_StoredInsideCubes ==
    \A n \in Nodes :
        heap[n].alive =>
            \A p \in Range(heap[n].pointList) :
                \A m \in {n} \cup Ancestors(heap, n) :
                    StrictlyInside(p, heap[m].origin, heap[m].size)

\* a leaf two levels below the root holds a point
C19_Witness ==
    \E n \in Nodes :
        /\ heap[n].alive
        /\ heap[n].depth = 2
        /\ heap[n].pointList # <<>>

\* C20: every live non-root node sits in children[parentIndex] of its parent,
\* parentIndex being the octant code xBit + 2*yBit + 4*zBit it was created
\* under, with depth = parent depth + 1, size = parent size / 2 and origin =
\* parent origin + bit * childSize per axis; the code insertion and lookup
\* compute for a point is that octant code, 5 for the point (1.5,0.5,1.5) in
\* the cube of origin (0,0,0) and size 2.
C20_OctantCode ==
    /\ \A n \in Nodes :
           (heap[n].alive /\ heap[n].parent # NULL) =>
               LET parent == heap[n].parent
                   code == heap[n].parentIndex
                   childSize == heap[parent].size \div 2
               IN  /\ heap[parent].alive
                   /\ code \in 0..(childNum - 1)
                   /\ heap[parent].children[code] = n
                   /\ heap[n].depth = heap[parent].depth + 1
                   /\ 2 * heap[n].size = heap[parent].size
                   /\ \A a \in Axes :
                          heap[n].origin[a]
                              = heap[parent].origin[a] + BitOfCode(code, a) * childSize
                   /\ \A leaf \in Subtree(n) :
                          \A p \in Range(heap[leaf].pointList) :
                              /\ code = OctantOf(p, heap[parent].origin, heap[parent].size)
                              /\ code = ChildIndex(p, heap[parent].origin, heap[parent].size)
    /\ ChildIndex(Pt(15, 5, 15), Pt(0, 0, 0), 20 * Grain) = 5

\* two children of one node hold points
C20_Witness ==
    \E n \in Nodes :
        /\ heap[n].alive
        /\ \E i, j \in 0..(childNum - 1) :
               /\ i < j
               /\ heap[n].children[i] # NULL
               /\ heap[n].children[j] # NULL
               /\ heap[heap[n].children[i]].alive
               /\ heap[heap[n].children[j]].alive
               /\ \E leaf \in Subtree(heap[n].children[j]) : heap[leaf].pointList # <<>>

\* C21: a single insertPoint call creates at most maxDepth new nodes when the
\* root exists, and at most maxDepth + 1, the root and one node per level
\* below it, when the root is still null.
C21_NodesPerInsert ==
    last.op = "insert" =>
        last.created <= maxDepth + (IF last.hadRoot THEN 0 ELSE 1)

\* the first insertion into a tree whose root was null has succeeded and has
\* created the root and a node at each of the maxDepth levels below it
C21_Witness ==
    /\ last.op = "insert"
    /\ ~last.err
    /\ ~last.hadRoot
    /\ last.created = maxDepth + 1

\* C21 as stated: a single insertPoint call creates at most maxDepth new
\* nodes, the first insertion into a tree whose root is null included.
C21_AtMostMaxDepth ==
    last.op = "insert" => last.created <= maxDepth

\* C22: an insertPoint call that fails with the out-of-bounds error leaves the
\* tree as it was before the call: no root and no child node created by the
\* call remains, so no live internal node is childless and no live leaf is
\* without points because of it.
C22_FailedInsertNoEffect ==
    (last.op = "insert" /\ last.err) =>
        /\ last.intact
        /\ last.created = 0

\* C23: every point strictly inside the root cube is inserted successfully:
\* the bound test fails at no level below the root, a point on the midplane
\* of a node of its path included.
C23_InsideRootInserts ==
    (last.op = "insert" /\ StrictlyInside(last.arg, origin, size)) => ~last.err

====
